---------------------------- MODULE Spec2Model ----------------------------
(***************************************************************************)
(* Model of the BMI classifier (src/src/utils/bmi.ts) and of the workout   *)
(* plan builder (src/unnamed/part_001, buildWorkoutPlan).                  *)
(*                                                                         *)
(* Numbers.  The program computes with IEEE doubles; the model computes    *)
(* with exact fixed-point and rational numbers:                            *)
(*   - a mass is an integer number of 1/KgScale kg (KgScale = 100000), so  *)
(*     that bmi * h * h is an integer for every whole-centimetre height    *)
(*     and every BMI given in tenths;                                      *)
(*   - a height is an integer number of centimetres;                       *)
(*   - a BMI is a rational [num, den] with den > 0; two BMIs are compared  *)
(*     by cross-multiplication, never by record equality;                  *)
(*   - the plan's targetBmi is an integer number of tenths of a BMI unit.  *)
(* Math.round, Math.ceil, Math.max, Math.min and Math.abs are modelled by  *)
(* what they compute (Math.round rounds a tie towards +infinity).          *)
(***************************************************************************)
EXTENDS Integers, Sequences, FiniteSets, TLC

VARIABLES
    weightKg, heightCm, bmi, goal,  \* the arguments of one call
    plan,                           \* the plan buildWorkoutPlan returned
    cls,                            \* the class classifyBmi returned
    pc,                             \* the position of that one call
    rt,                             \* a caller's objects and its calls
    ui,                             \* the state of the App component
    rnd,                            \* one call of round1
    store,                          \* the device storage and its users
    search,                         \* the PubMed search of the App
    acct                            \* the accounts, their rows and session

vars == <<weightKg, heightCm, bmi, goal, plan, cls, pc, rt, ui,
          rnd, store, search, acct>>

-----------------------------------------------------------------------------
(* Number representation *)

\* heightCm / 100 : centimetres per metre
CmPerM == 100

\* Math.round(x * 10) / 10 : tenths per unit
Tenth == 10

\* mass units per kilogram
KgScale == CmPerM * CmPerM * Tenth

\* one tenth of a kilogram, in mass units
DeciKg == KgScale \div Tenth

\* one hundredth of a kilogram, in mass units
CentiKg == KgScale \div 100

Rat(n, d) == [num |-> n, den |-> d]

RatLt(a, b) == a.num * b.den < b.num * a.den

RatGe(a, b) == ~RatLt(a, b)

\* a BMI given as a decimal with one fractional digit
BmiTenths(t) == Rat(t, Tenth)

Abs(x) == IF x < 0 THEN -x ELSE x

\* Math.max / Math.min
MathMax(a, b) == IF a >= b THEN a ELSE b

MathMin(a, b) == IF a <= b THEN a ELSE b

\* Math.round(n / d), d > 0: the integer nearest to n/d, a tie going up
MathRound(n, d) == (2 * n + d) \div (2 * d)

\* Math.ceil(n / d), d > 0
MathCeil(n, d) == -((-n) \div d)

-----------------------------------------------------------------------------
(* src/src/utils/bmi.ts *)
(* The labels and notes are the six fixed strings of the source, written   *)
(* here in English.                                                        *)

\* weightKg / (h * h) with h = heightCm / 100
calculateBmi(w, h) == Rat(w, Tenth * h * h)

LabelUnderweight == "Underweight"
LabelNormal == "Normal weight"
LabelOverweight == "Overweight"
LabelObesity1 == "Obesity class I"
LabelObesity2 == "Obesity class II"
LabelObesity3 == "Obesity class III"

NoteUnderweight == "discuss diet and regimen with a physician or dietitian"
NoteNormal == "maintain current activity and diet"
NoteOverweight == "moderate activity and diet adjustment are beneficial"
NoteObesity1 == "specialist consultation and a weight-loss plan"
NoteObesity2 == "medical supervision and lifestyle correction"
NoteObesity3 == "urgent medical consultation and comprehensive treatment"

\* classifyBmi with the first threshold compared by <= instead of <
classifyBmi_inclusive(b) ==
    IF ~RatLt(BmiTenths(185), b)
    THEN [label |-> LabelUnderweight, note |-> NoteUnderweight]
    ELSE IF RatLt(b, BmiTenths(250))
    THEN [label |-> LabelNormal, note |-> NoteNormal]
    ELSE IF RatLt(b, BmiTenths(300))
    THEN [label |-> LabelOverweight, note |-> NoteOverweight]
    ELSE IF RatLt(b, BmiTenths(350))
    THEN [label |-> LabelObesity1, note |-> NoteObesity1]
    ELSE IF RatLt(b, BmiTenths(400))
    THEN [label |-> LabelObesity2, note |-> NoteObesity2]
    ELSE [label |-> LabelObesity3, note |-> NoteObesity3]

\* classifyBmi with the results of the two obesity branches exchanged
classifyBmi_exchanged(b) ==
    IF RatLt(b, BmiTenths(185))
    THEN [label |-> LabelUnderweight, note |-> NoteUnderweight]
    ELSE IF RatLt(b, BmiTenths(250))
    THEN [label |-> LabelNormal, note |-> NoteNormal]
    ELSE IF RatLt(b, BmiTenths(300))
    THEN [label |-> LabelOverweight, note |-> NoteOverweight]
    ELSE IF RatLt(b, BmiTenths(350))
    THEN [label |-> LabelObesity2, note |-> NoteObesity2]
    ELSE IF RatLt(b, BmiTenths(400))
    THEN [label |-> LabelObesity1, note |-> NoteObesity1]
    ELSE [label |-> LabelObesity3, note |-> NoteObesity3]

classifyBmi(b) ==
    IF RatLt(b, BmiTenths(185))
    THEN [label |-> LabelUnderweight, note |-> NoteUnderweight]
    ELSE IF RatLt(b, BmiTenths(250))
    THEN [label |-> LabelNormal, note |-> NoteNormal]
    ELSE IF RatLt(b, BmiTenths(300))
    THEN [label |-> LabelOverweight, note |-> NoteOverweight]
    ELSE IF RatLt(b, BmiTenths(350))
    THEN [label |-> LabelObesity1, note |-> NoteObesity1]
    ELSE IF RatLt(b, BmiTenths(400))
    THEN [label |-> LabelObesity2, note |-> NoteObesity2]
    ELSE [label |-> LabelObesity3, note |-> NoteObesity3]

-----------------------------------------------------------------------------
(* src/unnamed/part_001 *)
(* buildWorkoutPlan, split into one operator per local constant of the     *)
(* function; the notes are the fixed strings of the source, in English.    *)

Goals == {"lose", "gain", "fit"}

\* clamp that forgets the upper limit
clamp_noUpper(n, min, max) == MathMax(min, n)

clamp(n, min, max) == MathMax(min, MathMin(max, n))

\* round1 that rounds a tie away from zero
round1_away(n) ==
    IF n >= 0 THEN MathRound(n * Tenth, KgScale) * DeciKg
    ELSE -(MathRound((-n) * Tenth, KgScale) * DeciKg)

\* round1 that truncates: Math.floor(n * 10) / 10
round1_floor(n) == ((n * Tenth) \div KgScale) * DeciKg

\* Math.round(n * 10) / 10 on a mass
round1(n) == MathRound(n * Tenth, KgScale) * DeciKg

\* weightForBmi that multiplies by the height once: bmi * h
weightForBmi_linear(h, b) == b * h * CmPerM

\* bmi * h * h with h = heightCm / 100; b in tenths of a BMI unit
weightForBmi(h, b) == b * h * h

\* targetBmiOf with the 19.5 of the source comment as the gain target
targetBmiOf_comment(g) ==
    IF g = "lose" THEN 240 ELSE IF g = "gain" THEN 195 ELSE 220

\* goal === "lose" ? 24.0 : goal === "gain" ? 20.0 : 22.0 (in tenths)
targetBmiOf(g) == IF g = "lose" THEN 240 ELSE IF g = "gain" THEN 200 ELSE 220

\* lossRate with the threshold compared by > instead of >=
lossRate_strict(b) ==
    IF RatLt(BmiTenths(300), b) THEN (3 * KgScale) \div 4 ELSE KgScale \div 2

\* bmi >= 30 ? 0.75 : 0.5 (kg per week, in mass units)
lossRate(b) ==
    IF RatGe(b, BmiTenths(300)) THEN (3 * KgScale) \div 4 ELSE KgScale \div 2

\* gainRate of 0.5 kg per week, the upper end of the source comment
gainRate_upper == KgScale \div 2

\* 0.35 kg per week, in mass units
gainRate == (35 * KgScale) \div 100

\* weeksFor with Math.round instead of Math.ceil
weeksFor_round(needed, rate) ==
    IF needed > 0 THEN MathRound(needed, rate) ELSE 0

\* weeksFor with Math.floor(.) + 1 instead of Math.ceil
weeksFor_floorPlus1(needed, rate) ==
    IF needed > 0 THEN (needed \div rate) + 1 ELSE 0

\* needed > 0 ? Math.ceil(needed / rate) : 0
weeksFor(needed, rate) == IF needed > 0 THEN MathCeil(needed, rate) ELSE 0

\* fitWeeks with Math.floor instead of Math.round
fitWeeks_floor(b) ==
    clamp((8 * b.den + Abs(22 * b.den - b.num) * 2) \div b.den, 8, 12)

\* clamp(Math.round(8 + Math.abs(22 - bmi) * 2), 8, 12)
fitWeeks(b) ==
    clamp(MathRound(8 * b.den + Abs(22 * b.den - b.num) * 2, b.den), 8, 12)

\* estimatedWeeksOf with the two differences exchanged between lose and gain
estimatedWeeksOf_exchanged(w, targetWeightKg, b, g) ==
    IF g = "lose"
    THEN weeksFor(MathMax(0, targetWeightKg - w), lossRate(b))
    ELSE IF g = "gain"
    THEN weeksFor(MathMax(0, w - targetWeightKg), gainRate)
    ELSE fitWeeks(b)

\* estimatedWeeksOf with Math.abs instead of Math.max(0, .) for gain
estimatedWeeksOf_absGain(w, targetWeightKg, b, g) ==
    IF g = "lose"
    THEN weeksFor(MathMax(0, w - targetWeightKg), lossRate(b))
    ELSE IF g = "gain"
    THEN weeksFor(Abs(targetWeightKg - w), gainRate)
    ELSE fitWeeks(b)

estimatedWeeksOf(w, targetWeightKg, b, g) ==
    IF g = "lose"
    THEN weeksFor(MathMax(0, w - targetWeightKg), lossRate(b))
    ELSE IF g = "gain"
    THEN weeksFor(MathMax(0, targetWeightKg - w), gainRate)
    ELSE fitWeeks(b)

\* gymPlanOf with the gain and fit templates exchanged
gymPlanOf_exchanged(g) ==
    IF g = "lose"
    THEN [strengthSessionsPerWeek |-> 3, strengthMinutesPerSession |-> 45,
          cardioSessionsPerWeek |-> 3, cardioMinutesPerSession |-> 35,
          stepsPerDay |-> 8000]
    ELSE IF g = "fit"
    THEN [strengthSessionsPerWeek |-> 4, strengthMinutesPerSession |-> 55,
          cardioSessionsPerWeek |-> 2, cardioMinutesPerSession |-> 20,
          stepsPerDay |-> 6000]
    ELSE [strengthSessionsPerWeek |-> 3, strengthMinutesPerSession |-> 50,
          cardioSessionsPerWeek |-> 2, cardioMinutesPerSession |-> 25,
          stepsPerDay |-> 7000]

gymPlanOf(g) ==
    IF g = "lose"
    THEN [strengthSessionsPerWeek |-> 3, strengthMinutesPerSession |-> 45,
          cardioSessionsPerWeek |-> 3, cardioMinutesPerSession |-> 35,
          stepsPerDay |-> 8000]
    ELSE IF g = "gain"
    THEN [strengthSessionsPerWeek |-> 4, strengthMinutesPerSession |-> 55,
          cardioSessionsPerWeek |-> 2, cardioMinutesPerSession |-> 20,
          stepsPerDay |-> 6000]
    ELSE [strengthSessionsPerWeek |-> 3, strengthMinutesPerSession |-> 50,
          cardioSessionsPerWeek |-> 2, cardioMinutesPerSession |-> 25,
          stepsPerDay |-> 7000]

\* the template chosen by the goal and the two values it interpolates
summaryOf(g, targetWeightKg, targetBmi) ==
    IF g = "lose"
    THEN <<"lose down to", targetWeightKg, targetBmi>>
    ELSE IF g = "gain"
    THEN <<"gain up to", targetWeightKg, targetBmi>>
    ELSE <<"improve form around", targetBmi>>

NoteLose1 == "regularity: strength to keep muscle plus moderate cardio"
NoteLose2 == "with contraindications agree the load with a specialist"
NoteGain1 == "progressive overload and sufficient nutrition"
NoteGain2 == "keep cardio short to maintain endurance"
NoteFit1 == "BMI does not tell muscle from fat: use girths, photos, body fat"

\* notesOf that pushes the fit note for every goal
notesOf_always(g) ==
    (IF g = "lose" THEN <<NoteLose1, NoteLose2>> ELSE << >>)
    \o (IF g = "gain" THEN <<NoteGain1, NoteGain2>> ELSE << >>)
    \o <<NoteFit1>>

notesOf(g) ==
    (IF g = "lose" THEN <<NoteLose1, NoteLose2>> ELSE << >>)
    \o (IF g = "gain" THEN <<NoteGain1, NoteGain2>> ELSE << >>)
    \o (IF g = "fit" THEN <<NoteFit1>> ELSE << >>)

buildWorkoutPlan(w, h, b, g) ==
    LET targetBmi == targetBmiOf(g)
        targetWeightKg == round1(weightForBmi(h, targetBmi))
        deltaKg == round1(targetWeightKg - w)
    IN  [goal |-> g,
         targetBmi |-> targetBmi,
         currentWeightKg |-> round1(w),
         targetWeightKg |-> targetWeightKg,
         deltaKg |-> round1(deltaKg),
         estimatedWeeks |-> estimatedWeeksOf(w, targetWeightKg, b, g),
         summary |-> summaryOf(g, targetWeightKg, targetBmi),
         gymPlan |-> gymPlanOf(g),
         notes |-> notesOf(g)]

-----------------------------------------------------------------------------
(* Inputs *)

\* validateInputs: weight in [20, 300] kg, height in [80, 250] cm
MinWeightKg == 20
MaxWeightKg == 300
MinHeightCm == 80
MaxHeightCm == 250

\* spacing of the weights tried, in hundredths of a kilogram
WeightStep == 235

\* range of the free bmi arguments tried, in hundredths of a BMI unit
MaxNegBmiCenti == 300
MaxBmiCenti == 4500

\* spacing and number of the bmi values a result is compared with, in
\* tenths of a BMI unit
ProbeStep == 5
MaxProbe == 90

Heights == MinHeightCm .. MaxHeightCm

\* weights with two decimals (the fields accept any decimal), in mass units
Weights ==
    { (MinWeightKg * 100 + k * WeightStep) * CentiKg :
        k \in 0 .. (((MaxWeightKg - MinWeightKg) * 100) \div WeightStep) }

\* measurements used with a bmi argument that is independent of them
Measurements ==
    { <<90 * KgScale, 180>>, <<55 * KgScale, 170>>, <<70 * KgScale, 175>>,
      <<7005 * CentiKg, 180>>, <<7828 * CentiKg, 180>> }

Probes == { BmiTenths(k * ProbeStep) : k \in (-2) .. MaxProbe }

BmiGrid == { Rat(c, 100) : c \in (-MaxNegBmiCenti) .. MaxBmiCenti }

NoPlan == [goal |-> "none"]
NoClass == [label |-> "none"]

\* no caller objects and no calls
NoRun == [heap |-> << >>, calls |-> << >>]

\* the App component is not mounted
NoApp == [mounted |-> FALSE]

\* round1 is not called
NoRound == [pc |-> "none"]

\* the device storage is not used
NoStore == [pc |-> "none"]

\* no search screen
NoSearch == [pc |-> "none"]

\* no accounts
NoAccounts == [pc |-> "none"]

\* the arguments of one call: either the bmi of the measurement itself, as
\* a caller computes it with calculateBmi, or a bmi argument of its own
Init ==
    /\ goal \in Goals
    /\ \/ /\ weightKg \in Weights
          /\ heightCm \in Heights
          /\ bmi = calculateBmi(weightKg, heightCm)
       \/ /\ \E m \in Measurements : weightKg = m[1] /\ heightCm = m[2]
          /\ bmi \in BmiGrid
    /\ plan = NoPlan
    /\ cls = NoClass
    /\ pc = "ready"
    /\ rt = NoRun
    /\ ui = NoApp
    /\ rnd = NoRound /\ store = NoStore /\ search = NoSearch
    /\ acct = NoAccounts

BuildWorkoutPlan ==
    /\ pc = "ready"
    /\ plan' = buildWorkoutPlan(weightKg, heightCm, bmi, goal)
    /\ pc' = "built"
    /\ UNCHANGED <<weightKg, heightCm, bmi, goal, cls, rt, ui,
                 rnd, store, search, acct>>

ClassifyBmi ==
    /\ pc = "ready"
    /\ cls' = classifyBmi(bmi)
    /\ pc' = "classified"
    /\ UNCHANGED <<weightKg, heightCm, bmi, goal, plan, rt, ui,
                 rnd, store, search, acct>>

Next == BuildWorkoutPlan \/ ClassifyBmi

Spec == Init /\ [][Next]_vars

TypeOK ==
    /\ weightKg \in Int
    /\ heightCm \in Heights
    /\ goal \in Goals
    /\ bmi.den > 0
    /\ pc \in {"ready", "built", "classified"}
    /\ (pc = "built") <=> (plan # NoPlan)
    /\ (pc = "classified") <=> (cls # NoClass)

-----------------------------------------------------------------------------
(* A caller of buildWorkoutPlan and the objects of its plans               *)
(* (src/unnamed/part_001).  gymPlan is an object literal and notes an      *)
(* array created by the call; the caller holds references to them and may  *)
(* write through these references.  rt.heap is the sequence of the objects *)
(* created so far, each with the literal it comes from (kind), the value   *)
(* it was created with (init) and its present value (val); rt.calls is the *)
(* sequence of the calls made, each with its arguments, the plan it        *)
(* returned (gymPlan and notes as references), the value of that plan at   *)
(* its return and whether the caller has written to it since.              *)

\* number of calls of one run
MaxCalls == 3

\* the arguments the caller chooses from
CallArgs ==
    { <<90 * KgScale, 180, Rat(2778, 100), g>> : g \in Goals }
    \cup { <<55 * KgScale, 170, Rat(1903, 100), g>> : g \in Goals }

\* an object creation that hands out an object created before from the
\* same literal with the same initial value (a literal hoisted out of the
\* function)
newObject_hoisted(heap, k, v) ==
    LET same(r) == heap[r].kind = k /\ heap[r].init = v IN
    IF \E r \in 1 .. Len(heap) : same(r)
    THEN [heap |-> heap, ref |-> CHOOSE r \in 1 .. Len(heap) : same(r)]
    ELSE [heap |-> Append(heap, [kind |-> k, init |-> v, val |-> v]),
          ref |-> Len(heap) + 1]

\* an object literal or array literal evaluated inside the function: a new
\* object on every evaluation
newObject(heap, k, v) ==
    [heap |-> Append(heap, [kind |-> k, init |-> v, val |-> v]),
     ref |-> Len(heap) + 1]

\* one call: the plan of the arguments, its gymPlan and notes new objects
callBuilder(heap, w, h, b, g) ==
    LET p == buildWorkoutPlan(w, h, b, g)
        gp == newObject(heap, "gymPlan", p.gymPlan)
        ns == newObject(gp.heap, "notes", p.notes)
    IN  [heap |-> ns.heap,
         plan |-> [p EXCEPT !.gymPlan = gp.ref, !.notes = ns.ref]]

\* a plan with its references replaced by the present values of the objects
Deref(heap, p) ==
    [p EXCEPT !.gymPlan = heap[p.gymPlan].val, !.notes = heap[p.notes].val]

InitCalls ==
    /\ weightKg = 90 * KgScale
    /\ heightCm = 180
    /\ bmi = Rat(2778, 100)
    /\ goal = "fit"
    /\ plan = NoPlan
    /\ cls = NoClass
    /\ pc = "ready"
    /\ rt = NoRun
    /\ ui = NoApp
    /\ rnd = NoRound /\ store = NoStore /\ search = NoSearch
    /\ acct = NoAccounts

CallBuilder ==
    /\ Len(rt.calls) < MaxCalls
    /\ \E a \in CallArgs :
          LET r == callBuilder(rt.heap, a[1], a[2], a[3], a[4]) IN
          rt' = [heap |-> r.heap,
                 calls |-> Append(rt.calls,
                              [args |-> a, plan |-> r.plan,
                               returned |-> Deref(r.heap, r.plan),
                               touched |-> FALSE])]
    /\ UNCHANGED <<weightKg, heightCm, bmi, goal, plan, cls, pc, ui,
                 rnd, store, search, acct>>

\* the caller pushes a string of its own onto the notes of a plan it holds
CallerPushesNote ==
    /\ \E i \in 1 .. Len(rt.calls) :
          LET ref == rt.calls[i].plan.notes IN
          /\ Len(rt.heap[ref].val) < 3
          /\ rt' = [heap |-> [rt.heap EXCEPT
                                 ![ref].val = Append(@, "note of the caller")],
                    calls |-> [rt.calls EXCEPT ![i].touched = TRUE]]
    /\ UNCHANGED <<weightKg, heightCm, bmi, goal, plan, cls, pc, ui,
                 rnd, store, search, acct>>

\* the caller overwrites stepsPerDay in the gymPlan of a plan it holds
CallerSetsSteps ==
    /\ \E i \in 1 .. Len(rt.calls) :
          LET ref == rt.calls[i].plan.gymPlan IN
          /\ rt.heap[ref].val.stepsPerDay # 0
          /\ rt' = [heap |-> [rt.heap EXCEPT ![ref].val.stepsPerDay = 0],
                    calls |-> [rt.calls EXCEPT ![i].touched = TRUE]]
    /\ UNCHANGED <<weightKg, heightCm, bmi, goal, plan, cls, pc, ui,
                 rnd, store, search, acct>>

NextCalls == CallBuilder \/ CallerPushesNote \/ CallerSetsSteps

SpecCalls == InitCalls /\ [][NextCalls]_vars

-----------------------------------------------------------------------------
(* The App component (src/unnamed/part_003): the two text fields, the last *)
(* result, the history shown, the goal state and the plan derived from     *)
(* them.  ui.server is the rows of bmi_history of the account, newest      *)
(* first; ui.pending is the history responses still in flight, each to be  *)
(* passed to setHistory when its await resumes.  ui.picked records the     *)
(* goal button pressed last ("none" before the first press); the code      *)
(* keeps no such state.  Screens are not modelled: the tab bar reaches     *)
(* every main screen from every other.  One account is modelled.           *)

\* history rows the model lets the account have
MaxHistory == 2

\* history requests in flight at once
MaxPending == 1

\* texts typed into the fields
WeightTexts == {"", "55", "70", "90"}
HeightTexts == {"", "abc", "180"}

\* useState<ResultState | null>(null)
NoResult == [category |-> "none"]

\* statsCurrent of null
NoStats == [category |-> "none"]

\* Number(text) of the trimmed text: 0 for the empty text, NaN (not
\* finite) for a text that is no number
parseNumber(text) ==
    CASE text = "" -> [finite |-> TRUE, n |-> 0]
      [] text = "55" -> [finite |-> TRUE, n |-> 55]
      [] text = "70" -> [finite |-> TRUE, n |-> 70]
      [] text = "90" -> [finite |-> TRUE, n |-> 90]
      [] text = "180" -> [finite |-> TRUE, n |-> 180]
      [] OTHER -> [finite |-> FALSE, n |-> 0]

\* Math.round(n * 10) / 10 of a BMI, as a number of tenths
round1Bmi(b) == BmiTenths(MathRound(b.num * Tenth, b.den))

\* the error messages of validateInputs
validateInputs(w, h) ==
    (IF ~w.finite THEN {"weight must be a number"} ELSE {})
    \cup (IF ~h.finite THEN {"height must be a number"} ELSE {})
    \cup (IF w.finite /\ (w.n < MinWeightKg \/ w.n > MaxWeightKg)
          THEN {"weight must be within 20-300 kg"} ELSE {})
    \cup (IF h.finite /\ (h.n < MinHeightCm \/ h.n > MaxHeightCm)
          THEN {"height must be within 80-250 cm"} ELSE {})

\* weight.trim().length > 0 && height.trim().length > 0
canCalculate(u) == u.weight # "" /\ u.height # ""

\* nextResult of onCalculate: the BMI rounded to a tenth, the class of the
\* unrounded BMI
resultOf(w, h) ==
    LET b == calculateBmi(w.n * KgScale, h.n)
        c == classifyBmi(b)
    IN  [bmi |-> round1Bmi(b), category |-> c.label, note |-> c.note]

\* item of onCalculate (id and at left out: the rows are kept newest first)
historyItem(w, h) ==
    LET r == resultOf(w, h)
    IN  [weightKg |-> w.n * KgScale, heightCm |-> h.n,
         bmi |-> r.bmi, category |-> r.category]

\* a value stored in a NUMERIC(6,2) column and read back
numeric62(x) == MathRound(x, CentiKg) * CentiKg

\* POST /history: the row as it is inserted and selected again
storedItem(item) == [item EXCEPT !.weightKg = numeric62(@)]

\* what loadHistory resolves to: the rows, or [] when the request fails
loadHistory(server) == {server, << >>}

statsCurrent(u) ==
    LET w == parseNumber(u.weight)
        h == parseNumber(u.height)
    IN  IF u.result # NoResult /\ w.finite /\ h.finite
        THEN [bmi |-> u.result.bmi, weightKg |-> w.n * KgScale,
              heightCm |-> h.n, category |-> u.result.category]
        ELSE IF Len(u.history) > 0
        THEN [bmi |-> u.history[1].bmi, weightKg |-> u.history[1].weightKg,
              heightCm |-> u.history[1].heightCm,
              category |-> u.history[1].category]
        ELSE NoStats

suggestedGoal(sc) ==
    IF sc = NoStats THEN "fit"
    ELSE IF RatGe(sc.bmi, BmiTenths(250)) THEN "lose"
    ELSE IF RatLt(sc.bmi, BmiTenths(185)) THEN "gain"
    ELSE "fit"

\* an effectiveGoal that lets the suggestion replace every goal
effectiveGoal_always(g, suggested) ==
    IF suggested # "fit" THEN suggested ELSE g

\* goal === "fit" && suggestedGoal !== "fit" ? suggestedGoal : goal
effectiveGoal(g, suggested) ==
    IF g = "fit" /\ suggested # "fit" THEN suggested ELSE g

\* the goal the statistics screen highlights and plans for
effectiveGoalOf(u) == effectiveGoal(u.goal, suggestedGoal(statsCurrent(u)))

statsPlan(u) ==
    LET sc == statsCurrent(u)
    IN  IF sc = NoStats THEN NoPlan
        ELSE buildWorkoutPlan(sc.weightKg, sc.heightCm, sc.bmi,
                              effectiveGoalOf(u))

\* the rows an account may hold when the App is opened
StartRows == { << >>, <<historyItem(parseNumber("90"), parseNumber("180"))>> }

InitUI ==
    /\ weightKg = 90 * KgScale
    /\ heightCm = 180
    /\ bmi = Rat(2778, 100)
    /\ goal = "fit"
    /\ plan = NoPlan
    /\ cls = NoClass
    /\ pc = "ready"
    /\ rt = NoRun
    /\ rnd = NoRound /\ store = NoStore /\ search = NoSearch
    /\ acct = NoAccounts
    /\ \E rows \in StartRows :
          ui = [mounted |-> TRUE, session |-> FALSE,
                weight |-> "", height |-> "", result |-> NoResult,
                history |-> << >>, goal |-> "fit", picked |-> "none",
                server |-> rows, pending |-> << >>]

UnchangedCall ==
    UNCHANGED <<weightKg, heightCm, bmi, goal, plan, cls, pc, rt,
                rnd, store, search, acct>>

\* onAuthSubmit, login accepted: the session is set, the history loaded
OnAuthSubmit ==
    /\ ~ui.session
    /\ Len(ui.pending) < MaxPending
    /\ \E items \in loadHistory(ui.server) :
          ui' = [ui EXCEPT !.session = TRUE,
                           !.pending = Append(@, items)]
    /\ UnchangedCall

\* onLogout, confirmed
OnLogout ==
    /\ ui.session
    /\ ui' = [ui EXCEPT !.session = FALSE, !.history = << >>,
                        !.weight = "", !.height = "", !.result = NoResult]
    /\ UnchangedCall

SetWeight ==
    /\ ui.session
    /\ \E t \in WeightTexts : ui' = [ui EXCEPT !.weight = t]
    /\ UnchangedCall

SetHeight ==
    /\ ui.session
    /\ \E t \in HeightTexts : ui' = [ui EXCEPT !.height = t]
    /\ UnchangedCall

\* onCalculate up to its await: an alert and nothing else when the input
\* is invalid; otherwise the result is set and the item posted.  The row
\* is inserted or not, and the response is the rows or, when the requests
\* fail, [].
OnCalculate ==
    /\ ui.session
    /\ canCalculate(ui)
    /\ Len(ui.pending) < MaxPending
    /\ Len(ui.server) < MaxHistory
    /\ LET w == parseNumber(ui.weight)
           h == parseNumber(ui.height)
       IN  IF validateInputs(w, h) # {}
           THEN ui' = ui
           ELSE \E inserted \in BOOLEAN :
                   LET rows == IF inserted
                               THEN <<storedItem(historyItem(w, h))>>
                                    \o ui.server
                               ELSE ui.server
                   IN  \E items \in loadHistory(rows) :
                          ui' = [ui EXCEPT !.result = resultOf(w, h),
                                           !.server = rows,
                                           !.pending = Append(@, items)]
    /\ UnchangedCall

\* setHistory(...) after an await, for any of the requests in flight
SetHistory ==
    /\ \E i \in 1 .. Len(ui.pending) :
          ui' = [ui EXCEPT
                    !.history = ui.pending[i],
                    !.pending = SubSeq(@, 1, i - 1)
                                \o SubSeq(@, i + 1, Len(@))]
    /\ UnchangedCall

OnReset ==
    /\ ui.session
    /\ ui' = [ui EXCEPT !.weight = "", !.height = "", !.result = NoResult]
    /\ UnchangedCall

\* onClearHistory, confirmed: the rows are deleted or not, and the
\* response is the rows left or, when the requests fail, []
OnClearHistory ==
    /\ ui.session
    /\ Len(ui.history) > 0
    /\ Len(ui.pending) < MaxPending
    /\ \E deleted \in BOOLEAN :
          LET rows == IF deleted THEN << >> ELSE ui.server
          IN  \E items \in loadHistory(rows) :
                 ui' = [ui EXCEPT !.server = rows,
                                  !.pending = Append(@, items)]
    /\ UnchangedCall

\* a goal button of the statistics screen: setGoal(g)
SetGoal ==
    /\ ui.session
    /\ \E g \in Goals : ui' = [ui EXCEPT !.goal = g, !.picked = g]
    /\ UnchangedCall

NextUI ==
    \/ OnAuthSubmit
    \/ OnLogout
    \/ SetWeight
    \/ SetHeight
    \/ OnCalculate
    \/ SetHistory
    \/ OnReset
    \/ OnClearHistory
    \/ SetGoal

SpecUI == InitUI /\ [][NextUI]_vars

-----------------------------------------------------------------------------
(* One call of round1 (src/src/utils/bmi.ts, src/unnamed/part_001) on a    *)
(* value of either sign, in units of 1/KgScale.                            *)

\* the values rounded: every multiple of 0.005 up to this many of them on
\* each side of zero
MaxRoundSteps == 100

RoundStep == KgScale \div 200

RoundInputs == { k * RoundStep : k \in (-MaxRoundSteps) .. MaxRoundSteps }

\* the single-call variables of a specification that makes no such call
NoCall ==
    /\ weightKg = 90 * KgScale
    /\ heightCm = 180
    /\ bmi = Rat(2778, 100)
    /\ goal = "fit"
    /\ plan = NoPlan
    /\ cls = NoClass
    /\ pc = "ready"

InitRound ==
    /\ NoCall
    /\ rt = NoRun /\ ui = NoApp
    /\ store = NoStore /\ search = NoSearch /\ acct = NoAccounts
    /\ \E x \in RoundInputs : rnd = [pc |-> "ready", x |-> x]

Round1 ==
    /\ rnd.pc = "ready"
    /\ rnd' = [pc |-> "rounded", x |-> rnd.x, y |-> round1(rnd.x)]
    /\ UNCHANGED <<weightKg, heightCm, bmi, goal, plan, cls, pc, rt, ui,
                   store, search, acct>>

NextRound == Round1

SpecRound == InitRound /\ [][NextRound]_vars

-----------------------------------------------------------------------------
(* Accounts and their history (src/unnamed/part_003: the /history handlers *)
(* of the server, the session and history state of the App;                *)
(* src/src/storage/usage.ts: loadHistory, addHistoryItem, clearHistory).   *)
(* acct.table is the table bmi_history, newest row first, each row with    *)
(* its user_id; acct.session is the signed-in user (the subject of the     *)
(* stored token) or "none"; acct.history is the list the App holds;        *)
(* acct.pending is the history responses in flight, each passed to         *)
(* setHistory when the await of its handler resumes.  A request carries    *)
(* the token stored when it is sent.                                       *)

Users == {"ann", "bob"}

\* rows the model lets the table have
MaxRows == 2

\* SELECT ... WHERE user_id = $1 ORDER BY at DESC
selectRows(table, sub) == SelectSeq(table, LAMBDA r : r.user_id = sub)

\* INSERT INTO bmi_history(..., user_id, ...) with the subject of the token
insertRow(table, sub) ==
    <<[user_id |-> sub, at |-> Len(table) + 1]>> \o table

\* DELETE FROM bmi_history WHERE user_id = $1
deleteRows(table, sub) == SelectSeq(table, LAMBDA r : r.user_id # sub)

InitAccounts ==
    /\ NoCall
    /\ rt = NoRun /\ ui = NoApp
    /\ rnd = NoRound /\ store = NoStore /\ search = NoSearch
    /\ acct = [pc |-> "app", registered |-> {"ann"}, session |-> "none",
               table |-> << >>, history |-> << >>, pending |-> << >>]

UnchangedButAcct ==
    UNCHANGED <<weightKg, heightCm, bmi, goal, plan, cls, pc, rt, ui,
                rnd, store, search>>

\* onAuthSubmit in register mode, accepted: the session of the new user is
\* stored and set, then the history is loaded with its token
AcctRegister ==
    /\ acct.session = "none"
    /\ Len(acct.pending) < MaxPending
    /\ \E u \in Users \ acct.registered :
       \E items \in loadHistory(selectRows(acct.table, u)) :
          acct' = [acct EXCEPT !.registered = @ \cup {u},
                               !.session = u,
                               !.pending = Append(@, items)]
    /\ UnchangedButAcct

\* onAuthSubmit in login mode, accepted
AcctLogin ==
    /\ acct.session = "none"
    /\ Len(acct.pending) < MaxPending
    /\ \E u \in acct.registered :
       \E items \in loadHistory(selectRows(acct.table, u)) :
          acct' = [acct EXCEPT !.session = u,
                               !.pending = Append(@, items)]
    /\ UnchangedButAcct

\* onLogout, confirmed: clearSession, then the session state and the
\* history are cleared
AcctLogout ==
    /\ acct.session # "none"
    /\ acct' = [acct EXCEPT !.session = "none", !.history = << >>]
    /\ UnchangedButAcct

\* onCalculate up to its await: the item is posted with the stored token;
\* the row is inserted or not, the response is the rows of the subject or,
\* when the requests fail, []
AcctCalculate ==
    /\ acct.session # "none"
    /\ Len(acct.pending) < MaxPending
    /\ Len(acct.table) < MaxRows
    /\ \E inserted \in BOOLEAN :
          LET t == IF inserted THEN insertRow(acct.table, acct.session)
                   ELSE acct.table
          IN  \E items \in loadHistory(selectRows(t, acct.session)) :
                 acct' = [acct EXCEPT !.table = t,
                                      !.pending = Append(@, items)]
    /\ UnchangedButAcct

\* onClearHistory, confirmed, up to its await
AcctClearHistory ==
    /\ acct.session # "none"
    /\ Len(acct.history) > 0
    /\ Len(acct.pending) < MaxPending
    /\ \E deleted \in BOOLEAN :
          LET t == IF deleted THEN deleteRows(acct.table, acct.session)
                   ELSE acct.table
          IN  \E items \in loadHistory(selectRows(t, acct.session)) :
                 acct' = [acct EXCEPT !.table = t,
                                      !.pending = Append(@, items)]
    /\ UnchangedButAcct

\* setHistory(...) after an await, for any of the requests in flight
AcctSetHistory ==
    /\ \E i \in 1 .. Len(acct.pending) :
          acct' = [acct EXCEPT
                      !.history = acct.pending[i],
                      !.pending = SubSeq(@, 1, i - 1)
                                  \o SubSeq(@, i + 1, Len(@))]
    /\ UnchangedButAcct

NextAccounts ==
    \/ AcctRegister
    \/ AcctLogin
    \/ AcctLogout
    \/ AcctCalculate
    \/ AcctClearHistory
    \/ AcctSetHistory

SpecAccounts == InitAccounts /\ [][NextAccounts]_vars

-----------------------------------------------------------------------------
(* The result and the history item onCalculate produces                    *)
(* (src/unnamed/part_003), for every whole-kilogram weight and every       *)
(* whole-centimetre height that validateInputs accepts.  Here ui holds     *)
(* only what onCalculate computes: the result it sets and the item it      *)
(* posts.                                                                  *)

WholeWeights == { k * KgScale : k \in MinWeightKg .. MaxWeightKg }

\* a number as parseNumber returns it
Parsed(n) == [finite |-> TRUE, n |-> n]

InitSave ==
    /\ weightKg \in WholeWeights
    /\ heightCm \in Heights
    /\ bmi = calculateBmi(weightKg, heightCm)
    /\ goal = "fit"
    /\ plan = NoPlan
    /\ cls = NoClass
    /\ pc = "ready"
    /\ rt = NoRun /\ ui = NoApp
    /\ rnd = NoRound /\ store = NoStore /\ search = NoSearch
    /\ acct = NoAccounts

\* onCalculate on a valid input, up to the posting of the item
CalculateAndSave ==
    /\ ~ui.mounted
    /\ LET w == Parsed(weightKg \div KgScale)
           h == Parsed(heightCm)
       IN  /\ validateInputs(w, h) = {}
           /\ ui' = [mounted |-> TRUE, screen |-> "result",
                     result |-> resultOf(w, h),
                     item |-> historyItem(w, h)]
    /\ UNCHANGED <<weightKg, heightCm, bmi, goal, plan, cls, pc, rt,
                   rnd, store, search, acct>>

NextSave == CalculateAndSave

SpecSave == InitSave /\ [][NextSave]_vars

-----------------------------------------------------------------------------
(* The stored session (src/src/storage/auth.ts) and the handlers of the    *)
(* App that use it (src/unnamed/part_003).  store.keys is the four         *)
(* AsyncStorage keys, "none" for a key that is not set; store.signedIn is  *)
(* the session state of the App; store.profile is the profile the server   *)
(* holds; store.ops is the requests in flight, each with the response it   *)
(* will get; store.last is the call of registerUser, loginUser or          *)
(* updateProfile that returned last, with the keys before and after the    *)
(* step in which it returned.                                              *)

SessionKeys == {"token", "email", "role", "name"}

NoKeys == [k \in SessionKeys |-> "none"]

Profiles == {"p1", "p2"}

\* the body of a successful response of the server for a profile
responseOf(p) ==
    IF p = "p1"
    THEN [token |-> "t1", email |-> "e1", role |-> "user", name |-> "n1"]
    ELSE [token |-> "t2", email |-> "e2", role |-> "user", name |-> ""]

\* the ways a request fails: non-2xx status, body without ok, body that is
\* no JSON, no connection
Failures == {"status", "no ok", "no json", "network"}

IsFailure(resp) == resp.token \in Failures

FailedResponse(f) == [token |-> f, email |-> f, role |-> f, name |-> f]

\* the responses a request can get when the server answers with profile p
Responses(p) == {responseOf(p)} \cup { FailedResponse(f) : f \in Failures }

\* AsyncStorage.multiSet of the four keys
setSession(keys, params) ==
    [k \in SessionKeys |-> params[k]]

\* AsyncStorage.multiRemove of the four keys
clearSession(keys) == NoKeys

\* a registerUser, loginUser or updateProfile that gives up the stored
\* session when the request fails
authReturn_clearOnFailure(keys, resp) ==
    IF IsFailure(resp) THEN [ok |-> FALSE, keys |-> clearSession(keys)]
    ELSE [ok |-> TRUE, keys |-> setSession(keys, resp)]

\* registerUser, loginUser and updateProfile from the response on:
\* ok:false without a write, or setSession and ok:true
authReturn(keys, resp) ==
    IF IsFailure(resp) THEN [ok |-> FALSE, keys |-> keys]
    ELSE [ok |-> TRUE, keys |-> setSession(keys, resp)]

\* getMe from the response on: the three profile keys are written
getMeReturn(keys, resp) ==
    IF IsFailure(resp) THEN [ok |-> FALSE, keys |-> keys]
    ELSE [ok |-> TRUE,
          keys |-> [keys EXCEPT !.email = resp.email, !.role = resp.role,
                                !.name = resp.name]]

NoAuthCall == [kind |-> "none"]

\* the App opened on a new device, or on one that holds a session
InitStore ==
    /\ NoCall
    /\ rt = NoRun /\ ui = NoApp
    /\ rnd = NoRound /\ search = NoSearch /\ acct = NoAccounts
    /\ \E held \in BOOLEAN :
          store = [pc |-> "device",
                   keys |-> IF held THEN setSession(NoKeys, responseOf("p1"))
                            ELSE NoKeys,
                   signedIn |-> held,
                   profile |-> "p1",
                   ops |-> << >>,
                   last |-> NoAuthCall]

UnchangedButStore ==
    UNCHANGED <<weightKg, heightCm, bmi, goal, plan, cls, pc, rt, ui,
                rnd, search, acct>>

\* onAuthSubmit: registerUser or loginUser sends its request
AuthSend ==
    /\ ~store.signedIn
    /\ Len(store.ops) < MaxPending
    /\ \E kind \in {"register", "login"} :
       \E resp \in Responses(store.profile) :
          store' = [store EXCEPT
                       !.ops = Append(@, [kind |-> kind, resp |-> resp])]
    /\ UnchangedButStore

\* the mount effect or onOpenEditProfile: getMe reads the token and, when
\* there is one, sends its request
GetMeSend ==
    /\ store.signedIn
    /\ store.keys.token # "none"
    /\ Len(store.ops) < MaxPending
    /\ \E resp \in Responses(store.profile) :
          store' = [store EXCEPT
                       !.ops = Append(@, [kind |-> "getMe", resp |-> resp])]
    /\ UnchangedButStore

\* onSaveProfile: updateProfile reads the token and, when there is one,
\* sends the new name and email; the server stores them or not
UpdateProfileSend ==
    /\ store.signedIn
    /\ store.keys.token # "none"
    /\ Len(store.ops) < MaxPending
    /\ \E p \in Profiles :
       \E resp \in Responses(p) :
          store' = [store EXCEPT
                       !.profile = IF IsFailure(resp) THEN @ ELSE p,
                       !.ops = Append(@, [kind |-> "updateProfile",
                                          resp |-> resp])]
    /\ UnchangedButStore

\* a request in flight resumes: the function writes the keys and returns,
\* and onAuthSubmit sets the session state after an ok
Resume ==
    /\ \E i \in 1 .. Len(store.ops) :
          LET op == store.ops[i]
              rest == SubSeq(store.ops, 1, i - 1)
                      \o SubSeq(store.ops, i + 1, Len(store.ops))
              r == IF op.kind = "getMe"
                   THEN getMeReturn(store.keys, op.resp)
                   ELSE authReturn(store.keys, op.resp)
          IN  store' = [store EXCEPT
                  !.keys = r.keys,
                  !.ops = rest,
                  !.signedIn = IF op.kind \in {"register", "login"} /\ r.ok
                               THEN TRUE ELSE @,
                  !.last = IF op.kind = "getMe" THEN @
                           ELSE [kind |-> op.kind, ok |-> r.ok,
                                 resp |-> op.resp,
                                 before |-> store.keys, after |-> r.keys]]
    /\ UnchangedButStore

\* onLogout, confirmed: clearSession, then the session state is cleared
Logout ==
    /\ store.signedIn
    /\ store' = [store EXCEPT !.keys = clearSession(@),
                              !.signedIn = FALSE]
    /\ UnchangedButStore

NextStore ==
    \/ AuthSend
    \/ GetMeSend
    \/ UpdateProfileSend
    \/ Resume
    \/ Logout

SpecStore == InitStore /\ [][NextStore]_vars

-----------------------------------------------------------------------------
(* The PubMed search of the App (src/unnamed/part_003: onApiSearch;        *)
(* src/unnamed/part_002: searchPubMed).  search.started counts the calls   *)
(* of onApiSearch that passed the empty-query check, and a call is named   *)
(* by its number; search.current is the call whose controller              *)
(* apiAbortRef holds; search.runs is the calls whose await has not         *)
(* resumed, each with its query, the request it waits for and whether its  *)
(* signal is aborted; search.results is apiResults with the call that set  *)
(* it and whether a later call had started by then.  A fetch and the       *)
(* reading of its body reject with AbortError once the signal is aborted.  *)

\* calls of onApiSearch in one run of the App
MaxSearches == 3

Queries == {"", "bmi", "obesity"}

NoResults == [by |-> 0, articles |-> << >>, stale |-> FALSE]

\* the articles searchPubMed returns for a query: those with a title
articlesOf(q, ids) == IF ids THEN <<q>> ELSE << >>

InitSearch ==
    /\ NoCall
    /\ rt = NoRun /\ ui = NoApp
    /\ rnd = NoRound /\ store = NoStore /\ acct = NoAccounts
    /\ search = [pc |-> "screen", loading |-> FALSE, results |-> NoResults,
                 started |-> 0, current |-> 0, runs |-> << >>]

UnchangedButSearch ==
    UNCHANGED <<weightKg, heightCm, bmi, goal, plan, cls, pc, rt, ui,
                rnd, store, acct>>

\* onApiSearch up to its await: an alert for an empty query; otherwise the
\* controller in apiAbortRef is aborted, a new one stored, apiLoading set
\* and the esearch request sent
OnApiSearch ==
    /\ search.started < MaxSearches
    /\ \E q \in Queries :
          IF q = ""
          THEN search' = search
          ELSE search' = [search EXCEPT
                  !.started = @ + 1,
                  !.current = search.started + 1,
                  !.loading = TRUE,
                  !.runs = Append(
                      [i \in 1 .. Len(@) |->
                          IF @[i].id = search.current
                          THEN [@[i] EXCEPT !.aborted = TRUE] ELSE @[i]],
                      [id |-> search.started + 1, query |-> q,
                       waits |-> "esearch", aborted |-> FALSE])]
    /\ UnchangedButSearch

\* the finally block of onApiSearch for the call at position i
finish(i, results) ==
    [search EXCEPT
        !.loading = FALSE,
        !.results = results,
        !.runs = SubSeq(@, 1, i - 1) \o SubSeq(@, i + 1, Len(@))]

setApiResults(run, articles) ==
    [by |-> run.id, articles |-> articles,
     stale |-> run.id # search.current]

\* the esearch request of a call resumes: AbortError, an error, an empty
\* id list (searchPubMed returns []), or the esummary request is sent
EsearchResumes ==
    /\ \E i \in 1 .. Len(search.runs) :
          LET run == search.runs[i] IN
          /\ run.waits = "esearch"
          /\ IF run.aborted
             THEN search' = finish(i, search.results)
             ELSE \E outcome \in {"error", "no ids", "ids"} :
                     search' =
                        IF outcome = "error"
                        THEN finish(i, search.results)
                        ELSE IF outcome = "no ids"
                        THEN finish(i, setApiResults(run,
                                          articlesOf(run.query, FALSE)))
                        ELSE [search EXCEPT !.runs[i].waits = "esummary"]
    /\ UnchangedButSearch

\* the esummary request of a call resumes: AbortError, an error, or the
\* articles, which onApiSearch passes to setApiResults
EsummaryResumes ==
    /\ \E i \in 1 .. Len(search.runs) :
          LET run == search.runs[i] IN
          /\ run.waits = "esummary"
          /\ IF run.aborted
             THEN search' = finish(i, search.results)
             ELSE \E outcome \in {"error", "articles"} :
                     search' =
                        IF outcome = "error"
                        THEN finish(i, search.results)
                        ELSE finish(i, setApiResults(run,
                                          articlesOf(run.query, TRUE)))
    /\ UnchangedButSearch

NextSearch == OnApiSearch \/ EsearchResumes \/ EsummaryResumes

SpecSearch == InitSearch /\ [][NextSearch]_vars

-----------------------------------------------------------------------------
(* Usage statistics (src/src/storage/usage.ts).  Here store.stats is the   *)
(* value stored under usage_stats_v1; store.calls is the calls of          *)
(* addUsageSeconds in flight, each with its clamped seconds, its date, the *)
(* await it is at and the statistics it has loaded; store.made counts the  *)
(* calls made and store.sum the clamped seconds of the calls that have     *)
(* returned.  A seconds argument is a number of half seconds or not        *)
(* finite.  byScreenSeconds is left out.                                   *)

\* calls of addUsageSeconds in one run
MaxUsageCalls == 3

Dates == {"2026-01-01", "2026-01-02"}

\* seconds arguments: NaN, -1, 0, 0.5, 1.5 and 2
SecondsArgs ==
    {[finite |-> FALSE, halves |-> 0]}
    \cup { [finite |-> TRUE, halves |-> n] : n \in {-2, 0, 1, 3, 4} }

\* 0 for a value that is not finite or negative, else Math.floor(n)
clampSeconds(n) ==
    IF ~n.finite THEN 0
    ELSE IF n.halves < 0 THEN 0
    ELSE n.halves \div 2

\* DEFAULT
DefaultUsage == [totalSeconds |-> 0, byDateSeconds |-> [d \in Dates |-> 0]]

\* next of addUsageSeconds
nextUsage(stats, add, key) ==
    [totalSeconds |-> stats.totalSeconds + add,
     byDateSeconds |-> [stats.byDateSeconds EXCEPT ![key] = @ + add]]

InitUsage ==
    /\ NoCall
    /\ rt = NoRun /\ ui = NoApp
    /\ rnd = NoRound /\ search = NoSearch /\ acct = NoAccounts
    /\ store = [pc |-> "usage", stats |-> DefaultUsage, calls |-> << >>,
                made |-> 0, sum |-> 0]

\* addUsageSeconds up to its first await; a call whose clamped seconds are
\* 0 only loads the statistics and returns them
AddUsageSeconds ==
    /\ store.made < MaxUsageCalls
    /\ \E seconds \in SecondsArgs, at \in Dates :
          LET add == clampSeconds(seconds) IN
          store' = [store EXCEPT
                       !.made = @ + 1,
                       !.calls = Append(@, [add |-> add, key |-> at,
                                            waits |-> "loadUsage",
                                            stats |-> DefaultUsage])]
    /\ UnchangedButStore

\* await loadUsage() resumes: the call holds the statistics stored now; a
\* call without seconds returns them
UsageLoaded ==
    /\ \E i \in 1 .. Len(store.calls) :
          LET c == store.calls[i] IN
          /\ c.waits = "loadUsage"
          /\ IF c.add <= 0
             THEN store' = [store EXCEPT
                      !.calls = SubSeq(@, 1, i - 1)
                                \o SubSeq(@, i + 1, Len(@))]
             ELSE store' = [store EXCEPT
                      !.calls[i].waits = "saveUsage",
                      !.calls[i].stats = store.stats]
    /\ UnchangedButStore

\* await saveUsage(next) resumes: next, computed from the statistics the
\* call loaded, is stored and the call returns
UsageSaved ==
    /\ \E i \in 1 .. Len(store.calls) :
          LET c == store.calls[i] IN
          /\ c.waits = "saveUsage"
          /\ store' = [store EXCEPT
                  !.stats = nextUsage(c.stats, c.add, c.key),
                  !.sum = @ + c.add,
                  !.calls = SubSeq(@, 1, i - 1)
                            \o SubSeq(@, i + 1, Len(@))]
    /\ UnchangedButStore

NextUsage == AddUsageSeconds \/ UsageLoaded \/ UsageSaved

SpecUsage == InitUsage /\ [][NextUsage]_vars

-----------------------------------------------------------------------------
(* Arithmetic used to state the properties, independent of the operators   *)
(* above                                                                   *)

\* r is x rounded to one decimal: the multiple of 0.1 kg nearest to x, the
\* upper one when x lies exactly between two of them
IsRounded1(r, x) ==
    /\ r % DeciKg = 0
    /\ 2 * (r - x) <= DeciKg
    /\ 2 * (x - r) < DeciKg

\* n is the least integer with n * rate >= needed, i.e. ceil(needed / rate)
IsCeil(n, needed, rate) ==
    /\ n \in Nat
    /\ n * rate >= needed
    /\ (n - 1) * rate < needed

\* the six-row table: the label of a bmi and the note of a label
TableLabel(b) ==
    CASE 10 * b.num < 185 * b.den -> "Underweight"
      [] 185 * b.den <= 10 * b.num /\ b.num < 25 * b.den -> "Normal weight"
      [] 25 * b.den <= b.num /\ b.num < 30 * b.den -> "Overweight"
      [] 30 * b.den <= b.num /\ b.num < 35 * b.den -> "Obesity class I"
      [] 35 * b.den <= b.num /\ b.num < 40 * b.den -> "Obesity class II"
      [] b.num >= 40 * b.den -> "Obesity class III"

TableNote ==
    [l \in {"Underweight", "Normal weight", "Overweight", "Obesity class I",
            "Obesity class II", "Obesity class III"} |->
        CASE l = "Underweight" -> NoteUnderweight
          [] l = "Normal weight" -> NoteNormal
          [] l = "Overweight" -> NoteOverweight
          [] l = "Obesity class I" -> NoteObesity1
          [] l = "Obesity class II" -> NoteObesity2
          [] l = "Obesity class III" -> NoteObesity3]

SeverityRank ==
    [l \in DOMAIN TableNote |->
        CASE l = "Underweight" -> 1
          [] l = "Normal weight" -> 2
          [] l = "Overweight" -> 3
          [] l = "Obesity class I" -> 4
          [] l = "Obesity class II" -> 5
          [] l = "Obesity class III" -> 6]

\* the target BMI of a goal, in tenths: lose 24.0, gain 20.0, fit 22.0
TableTargetBmi == [g \in Goals |->
    CASE g = "lose" -> 240 [] g = "gain" -> 200 [] g = "fit" -> 220]

\* targetBmi(goal) * (heightCm / 100)^2, unrounded, in mass units
ExactTargetWeight(h, g) == TableTargetBmi[g] * h * h

\* |x - 22| as a rational over the denominator of x
DistFrom22(b) == Abs(22 * b.den - b.num)

-----------------------------------------------------------------------------
(* Properties *)

\* C1: classifyBmi returns the category of the six-row table for every bmi
\* (18.5, 25, 30, 35 and 40 belong to the heavier category), and the note
\* returned is the fixed note of the label.
C1_ClassifierTable ==
    pc = "classified" =>
        /\ cls.label = TableLabel(bmi)
        /\ cls.note = TableNote[cls.label]

\* a classified boundary value: bmi = 18.5 is Normal weight
C1_Witness ==
    /\ pc = "classified"
    /\ 10 * bmi.num = 185 * bmi.den
    /\ cls.label = "Normal weight"

\* C2: classifyBmi is total and monotone: every bmi, zero and negative ones
\* included (Underweight), gets one of the six labels, and a larger bmi
\* never gets a label of lower severity rank.
C2_TotalMonotone ==
    pc = "classified" =>
        /\ cls.label \in DOMAIN SeverityRank
        /\ (bmi.num <= 0 => cls.label = "Underweight")
        /\ \A p \in Probes :
              LET r == SeverityRank[classifyBmi(p).label] IN
              /\ RatGe(p, bmi) => r >= SeverityRank[cls.label]
              /\ RatGe(bmi, p) => r <= SeverityRank[cls.label]

\* a classified negative bmi, below a probe of every one of the six ranks
C2_Witness ==
    /\ pc = "classified"
    /\ bmi.num < 0
    /\ cls.label = "Underweight"
    /\ \A k \in 1 .. 6 : \E p \in Probes :
          RatGe(p, bmi) /\ SeverityRank[classifyBmi(p).label] = k

C4_TargetWeight ==
    pc = "built" =>
        IsRounded1(plan.targetWeightKg, ExactTargetWeight(heightCm, goal))

\* a lose plan whose target weight was rounded down
C4_Witness ==
    /\ pc = "built"
    /\ goal = "lose"
    /\ plan.targetWeightKg < ExactTargetWeight(heightCm, goal)

\* 20 * |calculateBmi(targetWeightKg, h) - targetBmi| as a rational over
\* the denominator of calculateBmi(targetWeightKg, h)
C5_Deviation20 ==
    LET back == calculateBmi(plan.targetWeightKg, heightCm) IN
    2 * Abs(Tenth * back.num - TableTargetBmi[goal] * back.den)

C5_BackDen == calculateBmi(plan.targetWeightKg, heightCm).den

\* C5 as stated: for every height in 80..250 and every goal,
\* calculateBmi(plan.targetWeightKg, h) is within 0.05 of targetBmi(goal).
C5_Original ==
    pc = "built" /\ heightCm \in 80 .. 250 => C5_Deviation20 <= C5_BackDen

\* C5 amended: calculateBmi(plan.targetWeightKg, h) is within 0.05 of
\* targetBmi(goal) for every height in 100..250 and every goal, and within
\* 0.08 for the heights 80..99.
C5_Inversion ==
    pc = "built" /\ heightCm \in 80 .. 250 =>
        /\ heightCm >= 100 => C5_Deviation20 <= C5_BackDen
        /\ 100 * C5_Deviation20 < 160 * C5_BackDen

\* a plan at a height of at least 100 cm whose target weight is off the
\* exact one by the full 0.05 kg
C5_Witness ==
    /\ pc = "built"
    /\ heightCm >= 100
    /\ 2 * (plan.targetWeightKg - ExactTargetWeight(heightCm, goal)) = DeciKg

\* C6 as stated: deltaKg is the returned targetWeightKg minus the returned
\* currentWeightKg (a multiple of 0.1, so rounding it changes nothing), and
\* it is negative exactly when the current weight is above the target.
C6_Original ==
    pc = "built" =>
        /\ plan.deltaKg = plan.targetWeightKg - plan.currentWeightKg
        /\ (plan.deltaKg < 0) <=> (plan.currentWeightKg > plan.targetWeightKg)

\* the rate the lose goal uses, by the bmi argument
C7_Rate ==
    IF goal = "gain" THEN 35 * CentiKg
    ELSE IF bmi.num >= 30 * bmi.den THEN 75 * CentiKg ELSE 50 * CentiKg

\* the unrounded distance to the unrounded target weight
C7_RawNeeded ==
    IF goal = "lose"
    THEN weightKg - ExactTargetWeight(heightCm, goal)
    ELSE ExactTargetWeight(heightCm, goal) - weightKg

\* C7 as stated: for lose and gain, estimatedWeeks is what the unrounded
\* target weight targetBmi * (heightCm / 100)^2 gives; no rounding to one
\* decimal changes the week count.
C7_Original ==
    pc = "built" /\ goal \in {"lose", "gain"} =>
        IF C7_RawNeeded > 0
        THEN IsCeil(plan.estimatedWeeks, C7_RawNeeded, C7_Rate)
        ELSE plan.estimatedWeeks = 0

\* C8: for lose, the rate is 0.75 kg when the bmi argument is >= 30 and
\* 0.5 kg otherwise, needed = max(0, weightKg - targetWeightKg), and
\* estimatedWeeks = ceil(needed / rate) when needed > 0, else 0: a natural
\* number that is 0 exactly when weightKg <= targetWeightKg.
C8_LoseWeeks ==
    pc = "built" /\ goal = "lose" =>
        LET rate == IF bmi.num >= 30 * bmi.den
                    THEN 75 * CentiKg ELSE 50 * CentiKg
            needed == weightKg - plan.targetWeightKg
        IN  /\ plan.estimatedWeeks \in Nat
            /\ needed > 0 => IsCeil(plan.estimatedWeeks, needed, rate)
            /\ (plan.estimatedWeeks = 0) <=> (weightKg <= plan.targetWeightKg)

\* a lose plan with the bmi argument exactly 30 and weeks at the 0.75 rate
\* that the 0.5 rate would not give
C8_Witness ==
    /\ pc = "built"
    /\ goal = "lose"
    /\ bmi.num = 30 * bmi.den
    /\ weightKg > plan.targetWeightKg
    /\ plan.estimatedWeeks * 50 * CentiKg < weightKg - plan.targetWeightKg

\* C9: for gain, the rate is 0.35 kg whatever the bmi,
\* needed = max(0, targetWeightKg - weightKg), and estimatedWeeks =
\* ceil(needed / 0.35) when needed > 0, else 0: a natural number that is 0
\* exactly when weightKg >= targetWeightKg.
C9_GainWeeks ==
    pc = "built" /\ goal = "gain" =>
        LET needed == plan.targetWeightKg - weightKg
        IN  /\ plan.estimatedWeeks \in Nat
            /\ needed > 0 =>
                  IsCeil(plan.estimatedWeeks, needed, 35 * CentiKg)
            /\ (plan.estimatedWeeks = 0) <=> (weightKg >= plan.targetWeightKg)

\* a gain plan with a bmi argument of 30 or more whose distance to the
\* target is an exact multiple of 0.35 kg (not rounded up a week further)
C9_Witness ==
    /\ pc = "built"
    /\ goal = "gain"
    /\ bmi.num >= 30 * bmi.den
    /\ plan.targetWeightKg > weightKg
    /\ plan.estimatedWeeks * 35 * CentiKg = plan.targetWeightKg - weightKg

\* C10: for fit, estimatedWeeks = clamp(round(8 + |22 - bmi| * 2), 8, 12):
\* the same for every weight and height, within 8..12, 8 at bmi = 22,
\* non-decreasing in |22 - bmi| and 12 whenever |22 - bmi| >= 2.
C10_FitWeeks ==
    pc = "built" /\ goal = "fit" =>
        LET n == plan.estimatedWeeks
            \* 2 * (8 + |22 - bmi| * 2) over bmi.den
            y2 == 2 * (8 * bmi.den + 2 * DistFrom22(bmi))
        IN  /\ n \in 8 .. 12
            /\ y2 >= (2 * n - 1) * bmi.den
            /\ n = 12 \/ y2 < (2 * n + 1) * bmi.den
            /\ bmi.num = 22 * bmi.den => n = 8
            /\ DistFrom22(bmi) >= 2 * bmi.den => n = 12
            /\ \A m \in Measurements :
                  buildWorkoutPlan(m[1], m[2], bmi, "fit").estimatedWeeks = n
            /\ \A p \in Probes :
                  LET np == buildWorkoutPlan(weightKg, heightCm, p, "fit")
                                .estimatedWeeks
                  IN  /\ DistFrom22(p) * bmi.den >= DistFrom22(bmi) * p.den
                            => np >= n
                      /\ DistFrom22(p) * bmi.den <= DistFrom22(bmi) * p.den
                            => np <= n

\* a fit plan strictly inside the window: 10 weeks, rounded up from 9.5 or
\* more
C10_Witness ==
    /\ pc = "built"
    /\ goal = "fit"
    /\ plan.estimatedWeeks = 10
    /\ DistFrom22(bmi) < bmi.den

\* the weeks of the plan for weight w at the height and goal of the state,
\* with bmi supplied as w / (heightCm / 100)^2
WeeksAt(w) ==
    buildWorkoutPlan(w, heightCm, calculateBmi(w, heightCm), goal)
        .estimatedWeeks

\* the bmi argument of the state is the one of its weight and height
BmiIsDerived == bmi = calculateBmi(weightKg, heightCm)

\* w is at a bmi of 30 or more at the height of the state
AtLeast30(w) == RatGe(calculateBmi(w, heightCm), BmiTenths(300))

\* C11 as stated: for lose, with bmi supplied as weight / (height/100)^2,
\* a larger weight never has fewer estimatedWeeks, and the weight equal to
\* targetWeightKg has 0 weeks.
C11_Original ==
    pc = "built" /\ goal = "lose" /\ BmiIsDerived =>
        /\ \A w2 \in Weights :
              w2 >= weightKg => WeeksAt(w2) >= plan.estimatedWeeks
        /\ WeeksAt(plan.targetWeightKg) = 0

\* C11 amended: for lose, with bmi supplied as weight / (height/100)^2, a
\* larger weight never has fewer estimatedWeeks provided both weights are
\* on the same side of BMI 30 (the rate rises from 0.5 to 0.75 kg a week
\* there); the weight equal to targetWeightKg has 0 weeks.
C11_LoseMonotone ==
    pc = "built" /\ goal = "lose" /\ BmiIsDerived =>
        /\ \A w2 \in Weights :
              w2 >= weightKg /\ (AtLeast30(w2) <=> AtLeast30(weightKg))
                  => WeeksAt(w2) >= plan.estimatedWeeks
        /\ WeeksAt(plan.targetWeightKg) = 0

\* a lose plan above the target at a bmi of 30 or more, with a heavier
\* weight that needs more weeks
C11_Witness ==
    /\ pc = "built"
    /\ goal = "lose"
    /\ BmiIsDerived
    /\ AtLeast30(weightKg)
    /\ plan.estimatedWeeks > 0
    /\ \E w2 \in Weights : w2 > weightKg /\ WeeksAt(w2) > plan.estimatedWeeks

\* C12: for gain, a larger weight never has more estimatedWeeks (a weight
\* farther below the target never has fewer), and the weight equal to
\* targetWeightKg has 0 weeks.
C12_GainMonotone ==
    pc = "built" /\ goal = "gain" =>
        /\ \A w2 \in Weights :
              /\ w2 >= weightKg => WeeksAt(w2) <= plan.estimatedWeeks
              /\ w2 <= weightKg => WeeksAt(w2) >= plan.estimatedWeeks
        /\ WeeksAt(plan.targetWeightKg) = 0

\* a gain plan below the target, with a lighter weight that needs more
\* weeks and a weight above the target that needs none
C12_Witness ==
    /\ pc = "built"
    /\ goal = "gain"
    /\ plan.estimatedWeeks > 0
    /\ \E w2 \in Weights : w2 < weightKg /\ WeeksAt(w2) > plan.estimatedWeeks
    /\ \E w2 \in Weights : w2 > weightKg /\ WeeksAt(w2) = 0

\* the weekly session template of a goal: strength sessions x minutes,
\* cardio sessions x minutes, steps a day
TableGymPlan == [g \in Goals |->
    CASE g = "lose" ->
            [strengthSessionsPerWeek |-> 3, strengthMinutesPerSession |-> 45,
             cardioSessionsPerWeek |-> 3, cardioMinutesPerSession |-> 35,
             stepsPerDay |-> 8000]
      [] g = "gain" ->
            [strengthSessionsPerWeek |-> 4, strengthMinutesPerSession |-> 55,
             cardioSessionsPerWeek |-> 2, cardioMinutesPerSession |-> 20,
             stepsPerDay |-> 6000]
      [] g = "fit" ->
            [strengthSessionsPerWeek |-> 3, strengthMinutesPerSession |-> 50,
             cardioSessionsPerWeek |-> 2, cardioMinutesPerSession |-> 25,
             stepsPerDay |-> 7000]]

\* C13: gymPlan is the fixed template of the goal (lose 3x45, 3x35, 8000;
\* gain 4x55, 2x20, 6000; fit 3x50, 2x25, 7000) for every weight, height
\* and bmi.
C13_GymPlan ==
    pc = "built" => plan.gymPlan = TableGymPlan[goal]

\* a gain plan built with a negative bmi argument that is not the bmi of
\* its measurement
C13_Witness ==
    /\ pc = "built"
    /\ goal = "gain"
    /\ bmi.num < 0
    /\ plan.gymPlan.strengthSessionsPerWeek = 4
    /\ plan.gymPlan.stepsPerDay = 6000

\* the notes of the three goals, in order
TableNotes == [g \in Goals |->
    CASE g = "lose" -> <<NoteLose1, NoteLose2>>
      [] g = "gain" -> <<NoteGain1, NoteGain2>>
      [] g = "fit" -> <<NoteFit1>>]

\* C14: notes has exactly 2 entries for lose, 2 for gain and 1 for fit;
\* they are the fixed strings of the goal in their fixed order and no note
\* of another goal appears.
C14_Notes ==
    pc = "built" =>
        /\ Len(plan.notes) = (IF goal = "fit" THEN 1 ELSE 2)
        /\ plan.notes = TableNotes[goal]
        /\ \A g \in Goals \ {goal} : \A i \in 1 .. Len(plan.notes) :
              \A j \in 1 .. Len(TableNotes[g]) :
                  plan.notes[i] # TableNotes[g][j]

\* a lose plan with its two notes, the regularity note first
C14_Witness ==
    /\ pc = "built"
    /\ goal = "lose"
    /\ Len(plan.notes) = 2
    /\ plan.notes[1] = NoteLose1
    /\ plan.notes[2] = NoteLose2

\* the state is a call for the measurement of w kg and h cm with a bmi
\* argument from lo to hi hundredths
ScenarioCall(w, h, lo, hi) ==
    /\ weightKg = w * KgScale
    /\ heightCm = h
    /\ 100 * bmi.num >= lo * bmi.den
    /\ 100 * bmi.num <= hi * bmi.den

\* the bmi of w kg and h cm, rounded to hundredths, is c
BmiRoundsTo(w, h, c) ==
    LET b == calculateBmi(w * KgScale, h) IN
    /\ 2 * (100 * b.num - c * b.den) < b.den
    /\ 2 * (c * b.den - 100 * b.num) <= b.den

\* C15: 90 kg at 180 cm is a bmi of about 27.8, Overweight; the lose plan
\* has targetBmi 24.0, targetWeightKg 77.8, deltaKg -12.2, rate 0.5 and
\* estimatedWeeks = ceil(12.2 / 0.5) = 25.
C15_ScenarioA ==
    /\ BmiRoundsTo(90, 180, 2778)
    /\ pc = "classified" /\ ScenarioCall(90, 180, 2770, 2780) =>
          cls.label = "Overweight"
    /\ pc = "built" /\ ScenarioCall(90, 180, 2770, 2780) /\ goal = "lose" =>
          /\ plan.targetBmi = 240
          /\ plan.targetWeightKg = 778 * DeciKg
          /\ plan.deltaKg = -122 * DeciKg
          /\ weightKg - plan.targetWeightKg = 122 * DeciKg
          /\ plan.estimatedWeeks = 25

C15_Witness ==
    /\ pc = "built"
    /\ ScenarioCall(90, 180, 2778, 2778)
    /\ goal = "lose"
    /\ plan.estimatedWeeks = 25

C17_ScenarioC ==
    pc = "built" /\ ScenarioCall(70, 175, 2286, 2286) /\ goal = "fit" =>
        plan.estimatedWeeks = 10

C17_Witness ==
    /\ pc = "built"
    /\ ScenarioCall(70, 175, 2286, 2286)
    /\ goal = "fit"
    /\ plan.estimatedWeeks = 10
    /\ plan.targetBmi = 220

\* C18: two calls with identical arguments return identical plans in
\* every field, whatever calls and whatever writes of the caller lie
\* between them; the notes and gymPlan of a plan are objects of that plan
\* alone, so a plan the caller has not written to keeps the value it was
\* returned with.
C18_Deterministic ==
    \A i, j \in 1 .. Len(rt.calls) :
        /\ rt.calls[i].args = rt.calls[j].args
              => rt.calls[i].returned = rt.calls[j].returned
        /\ i # j =>
              /\ rt.calls[i].plan.notes # rt.calls[j].plan.notes
              /\ rt.calls[i].plan.gymPlan # rt.calls[j].plan.gymPlan
        /\ ~rt.calls[j].touched
              => Deref(rt.heap, rt.calls[j].plan) = rt.calls[j].returned

\* a call repeated with the arguments of an earlier call whose plan the
\* caller has written to in between, with another call in between
C18_Witness ==
    /\ Len(rt.calls) = 3
    /\ rt.calls[1].args = rt.calls[3].args
    /\ rt.calls[2].args # rt.calls[1].args
    /\ rt.calls[1].touched
    /\ Len(rt.heap[rt.calls[1].plan.notes].val) = 3
    /\ rt.heap[rt.calls[1].plan.gymPlan].val.stepsPerDay = 0
    /\ ~rt.calls[3].touched
    /\ rt.calls[3].returned = rt.calls[1].returned

\* bmi >= 25 -> lose, bmi < 18.5 -> gain, otherwise fit
TableGoal(b) ==
    IF b.num * 10 >= 250 * b.den THEN "lose"
    ELSE IF b.num * 10 < 185 * b.den THEN "gain"
    ELSE "fit"

\* C19: in every state of the App in which a plan is built, the goal
\* passed to buildWorkoutPlan is the goal of the button pressed last when
\* that button is lose or gain, whatever the BMI; while no goal button has
\* been pressed it is the goal the thresholds 25 and 18.5 give for the BMI
\* passed in the same call, which is the BMI of the last result or, without
\* a usable result, of the newest history item.
C19_GoalInference ==
    ui.mounted /\ statsPlan(ui) # NoPlan =>
        /\ ui.picked \in {"lose", "gain"} => statsPlan(ui).goal = ui.picked
        /\ ui.picked = "none"
              => /\ statsPlan(ui).goal = TableGoal(statsCurrent(ui).bmi)
                 /\ \/ /\ ui.result # NoResult
                       /\ statsCurrent(ui).bmi = ui.result.bmi
                    \/ /\ Len(ui.history) > 0
                       /\ statsCurrent(ui).bmi = ui.history[1].bmi

\* lose was pressed, then a measurement with a BMI below 18.5 was
\* calculated: the plan is still a lose plan
C19_Witness ==
    /\ ui.mounted
    /\ ui.picked = "lose"
    /\ ui.result # NoResult
    /\ statsPlan(ui) # NoPlan
    /\ statsCurrent(ui).bmi = ui.result.bmi
    /\ TableGoal(ui.result.bmi) = "gain"
    /\ Len(ui.history) > 0
    /\ ui.history[1].bmi = ui.result.bmi
    /\ statsPlan(ui).goal = "lose"

\* no button pressed, a result with a BMI of 25 or more: a lose plan
C19_Inferred ==
    /\ ui.mounted
    /\ ui.picked = "none"
    /\ ui.result # NoResult
    /\ TableGoal(ui.result.bmi) = "lose"
    /\ statsPlan(ui) # NoPlan
    /\ statsPlan(ui).goal = "lose"

\* C20: in every state in which the goal button pressed last is fit, the
\* goal the plan is built and displayed for is fit, for every current BMI.
C20_Original ==
    ui.mounted /\ ui.picked = "fit" /\ statsPlan(ui) # NoPlan =>
        /\ effectiveGoalOf(ui) = "fit"
        /\ statsPlan(ui).goal = "fit"

\* C21: in every state of the App in which a plan is built, the bmi passed
\* to buildWorkoutPlan is the BMI formula applied to the weightKg and
\* heightCm passed in the same call.  Stated here up to the rounding to a
\* tenth that onCalculate applies, which the claim as written does not
\* even allow.
C21_Original ==
    ui.mounted /\ statsPlan(ui) # NoPlan =>
        /\ statsCurrent(ui).heightCm > 0
        /\ statsCurrent(ui).bmi
              = round1Bmi(calculateBmi(statsCurrent(ui).weightKg,
                                       statsCurrent(ui).heightCm))

\* C22: in every state of the App in which a plan is built, buildWorkoutPlan
\* receives a weight within [20, 300] kg and a height within [80, 250] cm.
C22_Original ==
    ui.mounted /\ statsPlan(ui) # NoPlan =>
        /\ statsCurrent(ui).weightKg >= MinWeightKg * KgScale
        /\ statsCurrent(ui).weightKg <= MaxWeightKg * KgScale
        /\ statsCurrent(ui).heightCm >= MinHeightCm
        /\ statsCurrent(ui).heightCm <= MaxHeightCm

\* x rounded to a tenth, a tie going to the neighbour farther from zero
HalfAwayFromZero(x) ==
    IF x >= 0 THEN ((2 * x * Tenth + KgScale) \div (2 * KgScale)) * DeciKg
    ELSE -((((2 * (-x) * Tenth) + KgScale) \div (2 * KgScale)) * DeciKg)

\* C23 as claimed: round1 returns the nearest multiple of 0.1 and, for a
\* value half-way between two of them, the one farther from zero, for
\* positive and negative values alike.
C23_Original ==
    rnd.pc = "rounded" => rnd.y = HalfAwayFromZero(rnd.x)

\* C23: round1 returns a multiple of 0.1 that is at most 0.05 from its
\* argument, and for a value half-way between two multiples it returns the
\* greater one: the neighbour farther from zero for a positive value, the
\* neighbour nearer to zero for a negative one.
C23_HalfUp ==
    rnd.pc = "rounded" =>
        /\ rnd.y % DeciKg = 0
        /\ 2 * Abs(rnd.y - rnd.x) <= DeciKg
        /\ 2 * Abs(rnd.y - rnd.x) = DeciKg => rnd.y > rnd.x

\* -0.25 has been rounded to -0.2
C23_Witness ==
    /\ rnd.pc = "rounded"
    /\ rnd.x = -(25 * CentiKg)
    /\ rnd.y = -(2 * DeciKg)

\* C24: the history list the App holds is empty whenever no session is
\* active and otherwise holds only rows of the user signed in; every
\* response of the server holds rows of one user only.
C24_Original ==
    acct.pc = "app" =>
        /\ acct.session = "none" => acct.history = << >>
        /\ \A i \in 1 .. Len(acct.history) :
              acct.history[i].user_id = acct.session
        /\ \A k \in 1 .. Len(acct.pending) :
              \A i, j \in 1 .. Len(acct.pending[k]) :
                 acct.pending[k][i].user_id = acct.pending[k][j].user_id

\* the list holds a row of ann while bob is signed in
C24_Foreign ==
    /\ acct.pc = "app"
    /\ acct.session = "bob"
    /\ Len(acct.history) > 0
    /\ acct.history[1].user_id = "ann"

\* C25: a lose plan has estimatedWeeks 0 exactly when its deltaKg is not
\* negative, a gain plan exactly when its deltaKg is not positive.
C25_Original ==
    pc = "built" =>
        /\ plan.goal = "lose"
              => (plan.estimatedWeeks = 0 <=> plan.deltaKg >= 0)
        /\ plan.goal = "gain"
              => (plan.estimatedWeeks = 0 <=> plan.deltaKg <= 0)

\* C26: for every result of Calculate, classifyBmi of the saved (rounded)
\* bmi gives the saved category, and the goal suggested for the saved
\* measurement is lose exactly when the category is Overweight or an
\* obesity class, gain exactly when it is Underweight and fit exactly when
\* it is Normal weight.
C26_Original ==
    ui.mounted =>
        /\ classifyBmi(ui.item.bmi).label = ui.item.category
        /\ classifyBmi(ui.result.bmi).label = ui.result.category
        /\ suggestedGoal(ui.item) = "lose"
              <=> ui.item.category \in {LabelOverweight, LabelObesity1,
                                        LabelObesity2, LabelObesity3}
        /\ suggestedGoal(ui.item) = "gain"
              <=> ui.item.category = LabelUnderweight
        /\ suggestedGoal(ui.item) = "fit"
              <=> ui.item.category = LabelNormal

\* 68 kg at 165 cm: BMI 24.98 is saved as 25.0 with the category of 24.98
C26_Boundary ==
    /\ ui.mounted
    /\ weightKg = 68 * KgScale
    /\ heightCm = 165
    /\ ui.item.bmi = BmiTenths(250)
    /\ ui.item.category = LabelNormal
    /\ suggestedGoal(ui.item) = "lose"

\* C27: in every state of the session storage the email, role and name
\* keys are set only if the token key is set, and once the user is logged
\* out and no request is in flight none of the four keys is set.
C27_Original ==
    store.pc = "device" =>
        /\ store.keys.token = "none"
              => \A k \in SessionKeys : store.keys[k] = "none"
        /\ ~store.signedIn /\ store.ops = << >>
              => store.keys = NoKeys

\* C28: when registerUser, loginUser or updateProfile returns ok:false,
\* whatever the kind of failure, it has written none of the four keys;
\* when it returns ok:true it has written all four with the values of the
\* response of the server.
C28_FailedAuth ==
    store.pc = "device" /\ store.last # NoAuthCall =>
        /\ store.last.ok <=> ~IsFailure(store.last.resp)
        /\ ~store.last.ok => store.last.after = store.last.before
        /\ store.last.ok
              => \A k \in SessionKeys :
                    store.last.after[k] = store.last.resp[k]

\* an updateProfile has failed on a device that holds a session
C28_Witness ==
    /\ store.pc = "device"
    /\ store.last # NoAuthCall
    /\ store.last.kind = "updateProfile"
    /\ ~store.last.ok
    /\ store.last.resp.token = "no json"
    /\ store.last.before.token = "t1"
    /\ store.keys = store.last.before

\* C29: apiLoading is true in every state in which the search started
\* last is still in flight, and apiResults is never set by a search after
\* a later search has started.
C29_Original ==
    search.pc = "screen" =>
        /\ (\E i \in 1 .. Len(search.runs) :
               search.runs[i].id = search.current) => search.loading
        /\ ~search.results.stale

\* C29, the part that holds: a search that was aborted by a later one
\* never sets apiResults, and starting a search aborts every earlier one.
C29_NoStaleResults ==
    search.pc = "screen" =>
        /\ ~search.results.stale
        /\ \A i \in 1 .. Len(search.runs) :
              search.runs[i].aborted <=> search.runs[i].id # search.current

RECURSIVE SumOver(_, _)
SumOver(f, S) ==
    IF S = {} THEN 0
    ELSE LET d == CHOOSE x \in S : TRUE IN f[d] + SumOver(f, S \ {d})

\* C30: once every call of addUsageSeconds has returned, the stored
\* totalSeconds is the sum of floor(seconds) over the calls with finite
\* positive seconds and the sum of the byDateSeconds values, also for
\* calls that overlapped.
C30_Original ==
    store.pc = "usage" /\ store.calls = << >> =>
        /\ store.stats.totalSeconds = store.sum
        /\ store.stats.totalSeconds
              = SumOver(store.stats.byDateSeconds, Dates)

\* what holds for overlapping calls as well: the stored total is the sum
\* of the byDateSeconds values and never more than the seconds added
C30_NeverMore ==
    store.pc = "usage" =>
        /\ store.stats.totalSeconds
              = SumOver(store.stats.byDateSeconds, Dates)
        /\ store.calls = << >> => store.stats.totalSeconds <= store.sum

=============================================================================
